---- MODULE Spec2Model ----
(***************************************************************************)
(* Model of moodmorph.evals: LLMCapturesEvaluator (the evaluation driver,  *)
(* src/local/llm_captures_evaluator.py) and DBManager (the SQLite          *)
(* persistence adapter, src/local/db_manager.py).                          *)
(*                                                                         *)
(* A DataFrame is a record [columns, index, rows]: the set of column       *)
(* labels, the sequence of row labels and, parallel to it, the sequence of *)
(* rows.  A row is a function from column labels to cells; a missing cell  *)
(* (NaN, NaT, None, NULL) is a column that is not in the row's domain.     *)
(* A cell is <<type, payload>> and keeps the type it has in the program:   *)
(* a string s is <<"str", s>>, a Python int n is <<"int", n>>, a pandas    *)
(* Timestamp of instant t is <<"Timestamp", t>>; the decimal text of n and *)
(* the ISO text of t, which is what SQLite holds in a TEXT cell, are       *)
(* <<"str", n>> and <<"str", t>>.  Row labels are integers.                *)
(***************************************************************************)
EXTENDS Integers, Sequences, FiniteSets, TLC

\* ---------------------------------------------------------------- bounds
MaxCalls == 2
MaxEvals == 3
MaxRows == 3
MaxOpen == 1

\* ------------------------------------------------------ the environment
\* The rows of the capture table handed to the constructor.
CaptureIds == {1, 2}
\* A label that is no row of the capture table.
AbsentId == 3
Indices == CaptureIds \cup {AbsentId}

df_captures ==
  [i \in CaptureIds |->
     [path |-> i, emotion |-> IF i % 2 = 1 THEN "happiness" ELSE "sadness"]]

\* The model identifier given at construction.
ModelName == "vision-model"

JsonKeys == {"emotion", "key_visual_cues"}
JsonStrings ==
  [emotion |-> {"happiness", "anger"}, key_visual_cues |-> {"raised cheeks"}]

\* A JSON object with the keys ks, drawn from the strings of each key.
JsonObjects ==
  UNION {[ks -> {"happiness", "anger", "raised cheeks"}] : ks \in SUBSET JsonKeys}

WellTyped(o) == \A k \in DOMAIN o : o[k] \in JsonStrings[k]

\* What the endpoint may put in message.content: text that is no JSON, the
\* JSON text of a value that is no object, the JSON text of an object.
Contents ==
  {[kind |-> "garbage", obj |-> <<>>], [kind |-> "array", obj |-> <<>>]}
    \cup {[kind |-> "object", obj |-> o] : o \in {x \in JsonObjects : WellTyped(x)}}

TokenCounts == {57, 91}

\* What one completion call may do: raise, return a completion without usage
\* statistics, or return content and a total token count.
Completions ==
  {[raises |-> TRUE, usage |-> FALSE, content |-> [kind |-> "garbage", obj |-> <<>>],
    total_tokens |-> 57]}
    \cup {[raises |-> FALSE, usage |-> FALSE, content |-> [kind |-> "garbage", obj |-> <<>>],
           total_tokens |-> 0]}
    \cup {[raises |-> FALSE, usage |-> TRUE, content |-> c, total_tokens |-> n] :
            c \in Contents, n \in TokenCounts}

\* The inputs the model draws for one evaluate_capture(idx): whether the image
\* file opens, for a label the capture table has, and what the completion
\* call does, when the file opened: every kind of failure and of incomplete
\* content, and two complete answers that differ in every field.  A call
\* never looks at the inputs left out.
NoComp ==
  [raises |-> TRUE, usage |-> FALSE, content |-> [kind |-> "garbage", obj |-> <<>>],
   total_tokens |-> 0]

FileInputs(idx) == IF idx \in CaptureIds THEN BOOLEAN ELSE {FALSE}

CompletionInputs(idx, fileExists) ==
  IF idx \in CaptureIds /\ fileExists
    THEN {c \in Completions :
            IF c.content.kind = "object" /\ DOMAIN c.content.obj = JsonKeys
              THEN (c.total_tokens = 91) = (c.content.obj["emotion"] = "anger")
              ELSE c.total_tokens # 91}
    ELSE {NoComp}

\* ------------------------------------------------------------ DataFrames
EvalColumns ==
  {"expected_emotion", "identified_emotion", "key_visual_cues", "tokens_used",
   "evaluator", "timestamp"}

EmptyFrame(cols) == [columns |-> cols, index |-> <<>>, rows |-> <<>>]

NoRow == <<>>

Labels(df) == {df.index[p] : p \in 1..Len(df.index)}

\* The position of label idx in the frame's index (0: absent).
PosOf(df, idx) ==
  IF idx \in Labels(df)
    THEN CHOOSE p \in 1..Len(df.index) : df.index[p] = idx
    ELSE 0

\* df.loc[idx]
RowAt(df, idx) == IF PosOf(df, idx) = 0 THEN NoRow ELSE df.rows[PosOf(df, idx)]

Put(row, col, v) == [c \in DOMAIN row \cup {col} |-> IF c = col THEN v ELSE row[c]]

Drop(row, col) == [c \in DOMAIN row \ {col} |-> row[c]]

\* Mutant: a label the frame has gets a second row instead of the cell set.
LocSetAppends(df, idx, col, v) ==
  IF PosOf(df, idx) = 0 \/ col = "expected_emotion"
    THEN [df EXCEPT !.index = Append(@, idx),
                    !.rows = Append(@, Put(NoRow, col, v))]
    ELSE [df EXCEPT !.rows[Len(df.rows)] = Put(@, col, v)]

\* df.loc[idx, col] = v: sets the cell, adding a row of missing cells first
\* when the label is new (setting with enlargement).
LocSet(df, idx, col, v) ==
  IF PosOf(df, idx) = 0
    THEN [df EXCEPT !.index = Append(@, idx),
                    !.rows = Append(@, Put(NoRow, col, v))]
    ELSE [df EXCEPT !.rows[PosOf(df, idx)] = Put(@, col, v)]

\* ------------------------------------------------- LLMCapturesEvaluator
VARIABLES
  df_evaluations,  \* the results table
  tsDtype,         \* dtype of its timestamp column
  requests,        \* completion requests issued so far (the endpoint's count)
  calls,           \* evaluate_capture invocations so far; the clock reads it
  readable,        \* those of them on a row of df_captures whose file opened
  called,          \* the labels evaluate_capture was invoked with
  ret,             \* the row the last evaluate_capture returned
  db,              \* the database file: table name -> [schema, rows]
  openConns,       \* connections opened and not yet closed
  loaded,          \* the frame the last load_dataframe returned
  listed,          \* the names the last list_tables returned
  last,            \* the last operation, its arguments and its outcome
  prev             \* the save_dataframe call before the last operation, when
                   \* that is what came before it and it succeeded

vars ==
  <<df_evaluations, tsDtype, requests, calls, readable, called, ret, db,
    openConns, loaded, listed, last, prev>>

\* _encode_image: opening the file raises when it does not exist.
EncodeImage(fileExists) ==
  IF fileExists THEN [ok |-> TRUE, base64 |-> "base64"]
  ELSE [ok |-> FALSE, base64 |-> ""]

NoResult == [response |-> [kind |-> "garbage", obj |-> <<>>], tokens_used |-> 0]

\* Mutant: the completion is requested before the image is read.
ProcessCaptureRequestFirst(fileExists, comp) ==
  IF comp.raises \/ ~comp.usage \/ ~EncodeImage(fileExists).ok
    THEN [ok |-> FALSE, requests |-> 1, result |-> NoResult]
    ELSE [ok |-> TRUE, requests |-> 1,
          result |-> [response |-> comp.content, tokens_used |-> comp.total_tokens]]

\* Mutant: a failed request is sent once more.
ProcessCaptureRetry(fileExists, comp) ==
  IF ~EncodeImage(fileExists).ok
    THEN [ok |-> FALSE, requests |-> 0, result |-> NoResult]
    ELSE IF comp.raises \/ ~comp.usage
      THEN [ok |-> FALSE, requests |-> 2, result |-> NoResult]
      ELSE [ok |-> TRUE, requests |-> 1,
            result |-> [response |-> comp.content, tokens_used |-> comp.total_tokens]]

\* _process_capture: encode the image, call litellm.completion once, return
\* the message content and the total token count.  requests counts the
\* completion calls made.
ProcessCapture(fileExists, comp) ==
  IF ~EncodeImage(fileExists).ok
    THEN [ok |-> FALSE, requests |-> 0, result |-> NoResult]
    ELSE IF comp.raises
      THEN [ok |-> FALSE, requests |-> 1, result |-> NoResult]
      ELSE IF ~comp.usage
        THEN [ok |-> FALSE, requests |-> 1, result |-> NoResult]
        ELSE [ok |-> TRUE, requests |-> 1,
              result |-> [response |-> comp.content,
                          tokens_used |-> comp.total_tokens]]

\* json.loads: raises on text that is no JSON; a JSON array parses to a list.
JsonLoads(content) ==
  IF content.kind = "garbage" THEN [ok |-> FALSE, isObject |-> FALSE, obj |-> <<>>]
  ELSE [ok |-> TRUE, isObject |-> content.kind = "object", obj |-> content.obj]

\* response[key] raises KeyError on an object without the key and TypeError
\* on a list.
HasItem(response, key) == response.isObject /\ key \in DOMAIN response.obj

Failed(df, n) == [ok |-> FALSE, df |-> df, requests |-> n, row |-> NoRow]

\* Mutant: identified_emotion is given the capture's label.
WriteRowExpectedTwice(df, idx, rec, response, result, now, n) ==
  LET d1 == LocSet(df, idx, "expected_emotion", <<"str", rec.emotion>>)
  IN IF ~HasItem(response, "emotion") THEN Failed(d1, n)
     ELSE
       LET d2 == LocSet(d1, idx, "identified_emotion", <<"str", rec.emotion>>)
       IN IF ~HasItem(response, "key_visual_cues") THEN Failed(d2, n)
          ELSE
            LET d3 == LocSet(d2, idx, "key_visual_cues",
                             <<"str", response.obj["key_visual_cues"]>>)
                d4 == LocSet(d3, idx, "tokens_used", <<"int", result.tokens_used>>)
                d5 == LocSet(d4, idx, "evaluator", <<"str", ModelName>>)
                d6 == LocSet(d5, idx, "timestamp", <<"Timestamp", now>>)
            IN [ok |-> TRUE, df |-> d6, requests |-> n, row |-> RowAt(d6, idx)]

\* The six cell assignments of evaluate_capture, in the order of the code;
\* the first subscript that raises ends the call with the cells set so far.
WriteRow(df, idx, rec, response, result, now, n) ==
  LET d1 == LocSet(df, idx, "expected_emotion", <<"str", rec.emotion>>)
  IN IF ~HasItem(response, "emotion") THEN Failed(d1, n)
     ELSE
       LET d2 == LocSet(d1, idx, "identified_emotion",
                        <<"str", response.obj["emotion"]>>)
       IN IF ~HasItem(response, "key_visual_cues") THEN Failed(d2, n)
          ELSE
            LET d3 == LocSet(d2, idx, "key_visual_cues",
                             <<"str", response.obj["key_visual_cues"]>>)
                d4 == LocSet(d3, idx, "tokens_used", <<"int", result.tokens_used>>)
                d5 == LocSet(d4, idx, "evaluator", <<"str", ModelName>>)
                d6 == LocSet(d5, idx, "timestamp", <<"Timestamp", now>>)
            IN [ok |-> TRUE, df |-> d6, requests |-> n, row |-> RowAt(d6, idx)]

\* evaluate_capture(idx) on the results table df, with the file present or
\* not, the completion call behaving as comp and the clock reading now.
EvaluateCaptureOn(df, idx, fileExists, comp, now) ==
  IF idx \notin DOMAIN df_captures THEN Failed(df, 0)
  ELSE
    LET rec == df_captures[idx]
        pc == ProcessCapture(fileExists, comp)
    IN IF ~pc.ok THEN Failed(df, pc.requests)
       ELSE
         LET parsed == JsonLoads(pc.result.response)
         IN IF ~parsed.ok THEN Failed(df, pc.requests)
            ELSE WriteRow(df, idx, rec, parsed, pc.result, now, pc.requests)

\* Mutant: a timestamp that does not convert becomes missing (errors="coerce"
\* on values read as text).
AstypeCoerce(df) ==
  [df EXCEPT !.rows = [p \in 1..Len(df.rows) |-> Drop(df.rows[p], "timestamp")]]

\* save_to_db line 121, astype("datetime64[ns]") on the timestamp column: a
\* Timestamp cell becomes the datetime64[ns] of the same instant, which reads
\* back as that Timestamp; a missing cell stays missing.
AstypeDatetime(df) ==
  [df EXCEPT !.rows =
     [p \in 1..Len(df.rows) |->
        IF "timestamp" \in DOMAIN df.rows[p]
          THEN Put(df.rows[p], "timestamp", <<"Timestamp", df.rows[p]["timestamp"][2]>>)
          ELSE df.rows[p]]]

\* save_to_db line 123, reset_index(): the row labels become the column
\* test_id and the new index is 0..n-1.
ResetIndex(df) ==
  [columns |-> df.columns \cup {"test_id"},
   index |-> [p \in 1..Len(df.index) |-> p - 1],
   rows |-> [p \in 1..Len(df.index) |->
               Put(df.rows[p], "test_id", <<"int", df.index[p]>>)]]

\* ------------------------------------------------------------- DBManager
TableNames == {"evaluations"}
\* The three values to_sql accepts for if_exists, and one it rejects.
Policies == {"replace", "append", "fail", "overwrite"}
IndexCols == {"test_id", "id"}

\* to_sql(index=True): the frame's index is written as the column "index".
WithIndexColumn(frame) ==
  [frame EXCEPT !.columns = @ \cup {"index"},
                !.rows = [p \in 1..Len(frame.rows) |->
                            Put(frame.rows[p], "index", <<"int", frame.index[p]>>)]]

CellsOf(frame, col) ==
  {frame.rows[p][col] : p \in {q \in 1..Len(frame.rows) : col \in DOMAIN frame.rows[q]}}

\* Mutant: every object column is declared TEXT.
SqlTypeObjectIsText(frame, col) ==
  IF col = "timestamp" THEN "TIMESTAMP"
  ELSE IF col \in {"test_id", "index"} THEN "INTEGER"
  ELSE "TEXT"

\* The declared type to_sql gives a column of a table it creates: from the
\* dtype for the int64 label columns and the datetime64[ns] timestamp column,
\* and for an object column from its non-missing values (TEXT when it has
\* none).
SqlTypeOf(frame, col) ==
  IF col = "timestamp" THEN "TIMESTAMP"
  ELSE IF col \in {"test_id", "index"} THEN "INTEGER"
  ELSE IF CellsOf(frame, col) = {} THEN "TEXT"
  ELSE IF \A v \in CellsOf(frame, col) : v[1] = "int" THEN "INTEGER"
  ELSE "TEXT"

\* What sqlite3 is handed for a cell: a Timestamp goes in as its ISO text.
Adapt(cell) == IF cell[1] = "Timestamp" THEN <<"str", cell[2]>> ELSE cell

\* SQLite's column affinity: a TEXT column holds a number as its text, an
\* INTEGER column holds the text of a number as the number; the ISO text of
\* a timestamp is no number and stays text in a TIMESTAMP column.
Store(type, col, cell) ==
  IF type = "TEXT" /\ cell[1] = "int" THEN <<"str", cell[2]>>
  ELSE IF type = "INTEGER" /\ cell[1] = "str" /\ col \in {"tokens_used", "test_id", "index"}
    THEN <<"int", cell[2]>>
  ELSE cell

StoreRow(schema, row) == [c \in DOMAIN row |-> Store(schema[c], c, Adapt(row[c]))]

CreateTable(frame) ==
  [schema |-> [c \in frame.columns |-> SqlTypeOf(frame, c)], rows |-> <<>>]

InsertRows(table, frame) ==
  [table EXCEPT !.rows =
     @ \o [p \in 1..Len(frame.rows) |-> StoreRow(table.schema, frame.rows[p])]]

SetTable(dbv, name, table) ==
  [n \in DOMAIN dbv \cup {name} |-> IF n = name THEN table ELSE dbv[n]]

\* Mutant: append drops the rows the table held.
ToSqlAppendOverwrites(dbv, frame, name, if_exists, index) ==
  LET f == IF index THEN WithIndexColumn(frame) ELSE frame
  IN IF if_exists \notin {"fail", "replace", "append"} THEN [ok |-> FALSE, db |-> dbv]
     ELSE IF name \in DOMAIN dbv /\ if_exists = "fail" THEN [ok |-> FALSE, db |-> dbv]
     ELSE [ok |-> TRUE, db |-> SetTable(dbv, name, InsertRows(CreateTable(f), f))]

\* Mutant: replace adds to the table instead of dropping it.
ToSqlReplaceAppends(dbv, frame, name, if_exists, index) ==
  LET f == IF index THEN WithIndexColumn(frame) ELSE frame
  IN IF if_exists \notin {"fail", "replace", "append"} THEN [ok |-> FALSE, db |-> dbv]
     ELSE IF name \notin DOMAIN dbv
       THEN [ok |-> TRUE, db |-> SetTable(dbv, name, InsertRows(CreateTable(f), f))]
     ELSE IF if_exists = "fail" THEN [ok |-> FALSE, db |-> dbv]
     ELSE IF f.columns \subseteq DOMAIN dbv[name].schema
       THEN [ok |-> TRUE, db |-> SetTable(dbv, name, InsertRows(dbv[name], f))]
     ELSE [ok |-> FALSE, db |-> dbv]

\* df.to_sql(name, conn, if_exists, index) and the commit: the database
\* after it, or a failure that leaves (rolls back to) the database as it was.
ToSql(dbv, frame, name, if_exists, index) ==
  LET f == IF index THEN WithIndexColumn(frame) ELSE frame
  IN IF if_exists \notin {"fail", "replace", "append"} THEN [ok |-> FALSE, db |-> dbv]
     ELSE IF name \notin DOMAIN dbv \/ if_exists = "replace"
       THEN [ok |-> TRUE, db |-> SetTable(dbv, name, InsertRows(CreateTable(f), f))]
     ELSE IF if_exists = "fail" THEN [ok |-> FALSE, db |-> dbv]
     ELSE IF f.columns \subseteq DOMAIN dbv[name].schema
       THEN [ok |-> TRUE, db |-> SetTable(dbv, name, InsertRows(dbv[name], f))]
     ELSE [ok |-> FALSE, db |-> dbv]

\* pd.read_sql("SELECT * FROM name"): every row, each cell as stored.
ReadSql(dbv, name) ==
  IF name \notin DOMAIN dbv THEN [ok |-> FALSE, frame |-> EmptyFrame({})]
  ELSE [ok |-> TRUE,
        frame |-> [columns |-> DOMAIN dbv[name].schema,
                   index |-> [p \in 1..Len(dbv[name].rows) |-> p - 1],
                   rows |-> dbv[name].rows]]

\* df.set_index(col, inplace=True): KeyError when col is no column.
SetIndex(frame, col) ==
  IF col \notin frame.columns THEN [ok |-> FALSE, frame |-> EmptyFrame({})]
  ELSE [ok |-> TRUE,
        frame |-> [columns |-> frame.columns \ {col},
                   index |-> [p \in 1..Len(frame.rows) |-> frame.rows[p][col][2]],
                   rows |-> [p \in 1..Len(frame.rows) |-> Drop(frame.rows[p], col)]]]

\* load_dataframe, given a connection.
LoadDataframeOn(dbv, name, index_col) ==
  IF ~ReadSql(dbv, name).ok THEN [ok |-> FALSE, frame |-> EmptyFrame({})]
  ELSE SetIndex(ReadSql(dbv, name).frame, index_col)

\* `with sqlite3.connect(path) as conn:` leaves the block by committing or
\* rolling back; it does not close the connection, which is closed when the
\* connection object is finalised.  The open connections after a call that
\* connected, where finalised says whether the object was already reclaimed
\* when the call handed control back.
LeaveWith(open, finalised) == IF finalised THEN open ELSE open + 1

\* Whether the connection object is reclaimed by the time the call hands
\* control back is drawn only for a call that connected.
ReclaimInputs(canOpen) == IF canOpen THEN BOOLEAN ELSE {FALSE}

\* save_dataframe on the database dbv: canOpen says whether sqlite3.connect
\* succeeds.  connected: a connection was opened.
SaveDataframeOn(dbv, frame, name, if_exists, index, canOpen) ==
  IF ~canOpen THEN [ok |-> FALSE, db |-> dbv, connected |-> FALSE]
  ELSE [ok |-> ToSql(dbv, frame, name, if_exists, index).ok,
        db |-> ToSql(dbv, frame, name, if_exists, index).db,
        connected |-> TRUE]

TableLen(dbv, name) == IF name \in DOMAIN dbv THEN Len(dbv[name].rows) ELSE 0

NoFrame == EmptyFrame({})

\* The record of an operation: its arguments, the inputs it consumed (whether
\* the image file opened, what the completion call did, when one was made),
\* its outcome, the row the label had before it, and for a DBManager call the
\* frame handed to it and whether the table existed before it.
Record(op, idx, fileExists, comp, name, arg, index, frame, ok, before, existed) ==
  [op |-> op, idx |-> idx, fileExists |-> fileExists, comp |-> comp,
   name |-> name, arg |-> arg, index |-> index, frame |-> frame, ok |-> ok,
   before |-> before, existed |-> existed]

Did(op, idx, fileExists, comp, name, arg, ok, before) ==
  Record(op, idx, fileExists, comp, name, arg, FALSE, NoFrame, ok, before, FALSE)

Called(op, name, arg, index, frame, ok, existed) ==
  Record(op, 0, FALSE, NoComp, name, arg, index, frame, ok, NoRow, existed)

NoCall == Called("none", "", "", FALSE, NoFrame, FALSE, FALSE)

\* What prev keeps of the operation that was last.
Kept(l) == IF l.op = "save_dataframe" /\ l.ok THEN l ELSE NoCall

Init ==
  /\ df_evaluations = EmptyFrame(EvalColumns)
  /\ tsDtype = "object"
  /\ requests = 0
  /\ calls = 0
  /\ readable = 0
  /\ called = {}
  /\ ret = NoRow
  /\ db = <<>>
  /\ openConns = 0
  /\ loaded = NoFrame
  /\ listed = {}
  /\ last = Did("init", 0, FALSE, NoComp, "", "", TRUE, NoRow)
  /\ prev = NoCall

\* evaluate_capture(idx)
EvaluateCapture(idx, fileExists, comp) ==
  /\ LET r == EvaluateCaptureOn(df_evaluations, idx, fileExists, comp, calls + 1)
     IN /\ df_evaluations' = r.df
        /\ requests' = requests + r.requests
        /\ ret' = r.row
        /\ last' = Did("evaluate_capture", idx, fileExists, comp, "", "", r.ok,
                       RowAt(df_evaluations, idx))
  /\ calls' = calls + 1
  /\ readable' = IF idx \in CaptureIds /\ fileExists THEN readable + 1 ELSE readable
  /\ called' = called \cup {idx}
  /\ UNCHANGED <<tsDtype, db, openConns, loaded, listed, prev>>

\* save_to_db(db, table_name, override_rule)
SaveToDb(name, rule, canOpen, finalised) ==
  /\ openConns < MaxOpen
  /\ rule = "append" => TableLen(db, name) + Len(df_evaluations.rows) <= MaxRows
  /\ df_evaluations' = AstypeDatetime(df_evaluations)
  /\ tsDtype' = "datetime64[ns]"
  /\ LET r == SaveDataframeOn(db, ResetIndex(df_evaluations'), name, rule, FALSE,
                              canOpen)
     IN /\ db' = r.db
        /\ openConns' = IF r.connected
                          THEN LeaveWith(openConns, r.ok /\ finalised)
                          ELSE openConns
        /\ last' = Did("save_to_db", 0, FALSE, NoComp, name, rule, r.ok, NoRow)
  /\ ret' = NoRow
  /\ UNCHANGED <<requests, calls, readable, called, loaded, listed, prev>>

\* A connection object left open is reclaimed (its traceback is dropped, or
\* the collector runs) and so closed.
Finalize ==
  /\ openConns > 0
  /\ openConns' = openConns - 1
  /\ UNCHANGED <<df_evaluations, tsDtype, requests, calls, readable, called, ret,
                 db, loaded, listed, last, prev>>

Next ==
  \/ \E idx \in Indices :
       \E fileExists \in FileInputs(idx) :
         \E comp \in CompletionInputs(idx, fileExists) :
           calls < MaxCalls /\ EvaluateCapture(idx, fileExists, comp)
  \/ \E rule \in Policies, canOpen \in BOOLEAN :
       \E finalised \in ReclaimInputs(canOpen) :
         SaveToDb("evaluations", rule, canOpen, finalised)
  \/ Finalize

Spec == Init /\ [][Next]_vars

\* The driver evaluating captures, nothing else called.
NextEval ==
  \E idx \in Indices :
    \E fileExists \in FileInputs(idx) :
      \E comp \in CompletionInputs(idx, fileExists) :
        calls < MaxEvals /\ EvaluateCapture(idx, fileExists, comp)

SpecEval == Init /\ [][NextEval]_vars

\* ------------------------------------------- DBManager, called directly
\* A complete answer, and one without the emotion field.
FullCompletion ==
  [raises |-> FALSE, usage |-> TRUE,
   content |-> [kind |-> "object",
                obj |-> [emotion |-> "happiness", key_visual_cues |-> "raised cheeks"]],
   total_tokens |-> 57]

CompletionLackingEmotion ==
  [raises |-> FALSE, usage |-> TRUE,
   content |-> [kind |-> "object", obj |-> [key_visual_cues |-> "raised cheeks"]],
   total_tokens |-> 57]

\* The results table of a driver after the calls evaluate_capture(c.idx), the
\* completion call behaving as c.comp, for each c of cs in order.
RECURSIVE Evaluated(_)
Evaluated(cs) ==
  IF cs = <<>> THEN EmptyFrame(EvalColumns)
  ELSE EvaluateCaptureOn(Evaluated(SubSeq(cs, 1, Len(cs) - 1)), cs[Len(cs)].idx,
                         TRUE, cs[Len(cs)].comp, Len(cs)).df

Full(i) == [idx |-> i, comp |-> FullCompletion]
Partial(i) == [idx |-> i, comp |-> CompletionLackingEmotion]

\* The frames save_dataframe is handed: results tables as save_to_db hands
\* them over, of no row, one row and two rows, and two with a row that a
\* failed call left incomplete.
FrameInputs ==
  {ResetIndex(AstypeDatetime(Evaluated(cs))) :
     cs \in {<<>>, <<Full(1)>>, <<Full(2)>>, <<Full(1), Full(2)>>,
             <<Partial(1)>>, <<Full(1), Partial(2)>>}}

\* save_dataframe(df, table_name, if_exists, index)
SaveDataframe(frame, name, if_exists, index, canOpen, finalised) ==
  /\ openConns < MaxOpen
  /\ if_exists = "append" => TableLen(db, name) + Len(frame.rows) <= MaxRows
  /\ LET r == SaveDataframeOn(db, frame, name, if_exists, index, canOpen)
     IN /\ db' = r.db
        /\ openConns' = IF r.connected
                          THEN LeaveWith(openConns, r.ok /\ finalised)
                          ELSE openConns
        /\ last' = Called("save_dataframe", name, if_exists, index, frame, r.ok,
                          name \in DOMAIN db)
  /\ prev' = Kept(last)
  /\ loaded' = NoFrame
  /\ listed' = {}
  /\ UNCHANGED <<df_evaluations, tsDtype, requests, calls, readable, called, ret>>

\* load_dataframe(table_name, index_col)
LoadDataframe(name, index_col, canOpen, finalised) ==
  /\ openConns < MaxOpen
  /\ LET r == IF canOpen THEN LoadDataframeOn(db, name, index_col)
              ELSE [ok |-> FALSE, frame |-> NoFrame]
     IN /\ loaded' = r.frame
        /\ openConns' = IF canOpen THEN LeaveWith(openConns, r.ok /\ finalised)
                        ELSE openConns
        /\ last' = Called("load_dataframe", name, index_col, FALSE, NoFrame, r.ok,
                          name \in DOMAIN db)
  /\ prev' = Kept(last)
  /\ listed' = {}
  /\ UNCHANGED <<df_evaluations, tsDtype, requests, calls, readable, called, ret, db>>

\* list_tables(): the names in sqlite_master.
ListTables(canOpen, finalised) ==
  /\ openConns < MaxOpen
  /\ listed' = IF canOpen THEN DOMAIN db ELSE {}
  /\ openConns' = IF canOpen THEN LeaveWith(openConns, finalised) ELSE openConns
  /\ last' = Called("list_tables", "", "", FALSE, NoFrame, canOpen, FALSE)
  /\ prev' = Kept(last)
  /\ loaded' = NoFrame
  /\ UNCHANGED <<df_evaluations, tsDtype, requests, calls, readable, called, ret, db>>

NextDB ==
  \/ \E frame \in FrameInputs, name \in TableNames, if_exists \in Policies,
        canOpen \in BOOLEAN :
       \E finalised \in ReclaimInputs(canOpen) :
         SaveDataframe(frame, name, if_exists, FALSE, canOpen, finalised)
  \/ \E name \in TableNames, index_col \in IndexCols, canOpen \in BOOLEAN :
       \E finalised \in ReclaimInputs(canOpen) :
         LoadDataframe(name, index_col, canOpen, finalised)
  \/ \E canOpen \in BOOLEAN :
       \E finalised \in ReclaimInputs(canOpen) : ListTables(canOpen, finalised)
  \/ Finalize

SpecDB == Init /\ [][NextDB]_vars

\* ------------------------------------------------------------ properties
Range(f) == {f[x] : x \in DOMAIN f}

\* The step is one evaluate_capture call.
EvalStep == calls' = calls + 1

\* The state is the one a call of evaluate_capture left.
AfterEval == last.op = "evaluate_capture"

\* C1: whenever evaluate_capture(idx) fails, for whatever reason, the results
\* table is exactly what it was before the call.
C1_FailureLeavesResults ==
  [][(EvalStep /\ ~last'.ok) => df_evaluations' = df_evaluations]_vars

\* C2: the request counter is 0 before any call; a call of evaluate_capture
\* issues at most one completion request, no other step issues any; and the
\* counter equals the number of calls made on a capture of the table whose
\* file was readable.
C2_OneRequestPerCall ==
  /\ requests = 0
  /\ [](requests = readable /\ (calls = 0 => requests = 0))
  /\ [][/\ requests' - requests \in {0, 1}
        /\ requests' # requests => EvalStep
        /\ (EvalStep /\ last'.idx \in CaptureIds /\ last'.fileExists)
             => requests' = requests + 1]_vars

\* Two calls on readable captures were made, the later one's request failed,
\* and the counter reads 2.
C2_Witness ==
  /\ AfterEval /\ last.fileExists /\ last.comp.raises /\ ~last.ok
  /\ calls = 2 /\ readable = 2 /\ requests = 2

\* C3: a call of evaluate_capture for a capture whose file is missing fails
\* and leaves the request counter as it was.
C3_MissingFileNoRequest ==
  [][(EvalStep /\ last'.idx \in CaptureIds /\ ~last'.fileExists)
       => (~last'.ok /\ requests' = requests)]_vars

\* The first call was for a capture whose file is missing: the counter is 0.
C3_Witness ==
  /\ AfterEval /\ last.idx \in CaptureIds /\ ~last.fileExists /\ ~last.ok
  /\ calls = 1 /\ requests = 0

\* C4: after a successful evaluate_capture(idx) the row at idx holds the
\* capture's emotion, the emotion and key_visual_cues of the parsed answer,
\* the completion's total token count and the model; the call returns that row.
C4_RowWritten ==
  (AfterEval /\ last.ok) =>
    /\ last.idx \in Labels(df_evaluations)
    /\ LET row == RowAt(df_evaluations, last.idx)
       IN /\ "expected_emotion" \in DOMAIN row
          /\ row["expected_emotion"] = <<"str", df_captures[last.idx].emotion>>
          /\ "identified_emotion" \in DOMAIN row
          /\ row["identified_emotion"] = <<"str", last.comp.content.obj["emotion"]>>
          /\ "key_visual_cues" \in DOMAIN row
          /\ row["key_visual_cues"]
               = <<"str", last.comp.content.obj["key_visual_cues"]>>
          /\ "tokens_used" \in DOMAIN row
          /\ row["tokens_used"] = <<"int", last.comp.total_tokens>>
          /\ "evaluator" \in DOMAIN row
          /\ row["evaluator"] = <<"str", ModelName>>
          /\ ret = row

\* A call succeeded whose answer names an emotion other than the expected one.
C4_Witness ==
  /\ AfterEval /\ last.ok
  /\ last.comp.content.obj["emotion"] # df_captures[last.idx].emotion
  /\ last.comp.total_tokens = 91

\* The row the label had before the call was written by a successful call.
WasEvaluated(l) == "timestamp" \in DOMAIN l.before

\* C9: when evaluate_capture succeeds for a label an earlier call succeeded
\* for, the label's row holds the later call's emotion, cues, token count and
\* timestamp, no row is added, and every other label's row is unchanged.
C9_LastWriteWins ==
  [][(EvalStep /\ last'.ok /\ WasEvaluated(last')) =>
       /\ df_evaluations'.index = df_evaluations.index
       /\ LET row == RowAt(df_evaluations', last'.idx)
          IN /\ row["identified_emotion"] = <<"str", last'.comp.content.obj["emotion"]>>
             /\ row["key_visual_cues"]
                  = <<"str", last'.comp.content.obj["key_visual_cues"]>>
             /\ row["tokens_used"] = <<"int", last'.comp.total_tokens>>
             /\ row["timestamp"] = <<"Timestamp", calls'>>
       /\ \A j \in Labels(df_evaluations) \ {last'.idx} :
            RowAt(df_evaluations', j) = RowAt(df_evaluations, j)]_vars

\* A second success for a label, with another emotion and token count than
\* the first, while another label has a row.
C9_Witness ==
  /\ AfterEval /\ last.ok /\ WasEvaluated(last)
  /\ last.before["identified_emotion"]
       # RowAt(df_evaluations, last.idx)["identified_emotion"]
  /\ last.before["tokens_used"] # RowAt(df_evaluations, last.idx)["tokens_used"]
  /\ Len(df_evaluations.index) = 2

\* C10: every row of the results table has the label of an evaluate_capture
\* call made before; the row count never decreases; a step that is no
\* evaluate_capture call (save_to_db, succeeding or failing) leaves every row
\* as it was, and an evaluate_capture(idx) call adds at most the label idx.
C10_OnlyEvaluateWrites ==
  /\ [](Labels(df_evaluations) \subseteq called)
  /\ [][/\ Len(df_evaluations'.index) >= Len(df_evaluations.index)
        /\ ~EvalStep => df_evaluations' = df_evaluations
        /\ EvalStep => Labels(df_evaluations') \subseteq
                         Labels(df_evaluations) \cup {last'.idx}]_vars

\* save_to_db ran, and failed, on a results table of two rows.
C10_Witness ==
  /\ last.op = "save_to_db" /\ ~last.ok
  /\ tsDtype = "datetime64[ns]"
  /\ Len(df_evaluations.index) = 2
  /\ "evaluations" \in DOMAIN db

\* The last two calls were a successful save_dataframe that created its table
\* and a successful load_dataframe of that table with index_col test_id.
RoundTrip ==
  /\ last.op = "load_dataframe" /\ last.ok /\ last.arg = "test_id"
  /\ prev.op = "save_dataframe" /\ ~prev.existed /\ prev.name = last.name

\* The results table the saved frame was made of by reset_index.
Original == SetIndex(prev.frame, "test_id").frame

\* C5, as claimed: a results table saved into a table that did not exist and
\* loaded back has the same row labels and, for each label, the same value
\* in every column.
C5_RoundTripEqual ==
  RoundTrip =>
    /\ Labels(loaded) = Labels(Original)
    /\ loaded.columns = Original.columns
    /\ \A l \in Labels(Original) : RowAt(loaded, l) = RowAt(Original, l)

\* C5, amended: the loaded table has the same row labels and columns and,
\* for each label, the same value in every column but timestamp, where it
\* holds the ISO text of the original's timestamp.
C5_RoundTripModuloTimestamp ==
  RoundTrip =>
    /\ Labels(loaded) = Labels(Original)
    /\ Len(loaded.index) = Len(Original.index)
    /\ loaded.columns = Original.columns
    /\ \A l \in Labels(Original) :
         /\ DOMAIN RowAt(loaded, l) = DOMAIN RowAt(Original, l)
         /\ \A c \in DOMAIN RowAt(Original, l) \ {"timestamp"} :
              RowAt(loaded, l)[c] = RowAt(Original, l)[c]
         /\ "timestamp" \in DOMAIN RowAt(Original, l) =>
              RowAt(loaded, l)["timestamp"]
                = <<"str", RowAt(Original, l)["timestamp"][2]>>

\* A table of two rows went through save and load.
C5_Witness == RoundTrip /\ Len(loaded.index) = 2 /\ Len(prev.frame.index) = 2

\* C6: a save with policy replace that follows a successful save with policy
\* replace of the same frame into the same table leaves the database, the
\* table's rows and schema included, as the first save left it.
C6_ReplaceTwice ==
  [][(/\ last.op = "save_dataframe" /\ last.ok /\ last.arg = "replace"
      /\ last'.op = "save_dataframe" /\ last'.ok /\ last'.arg = "replace"
      /\ prev' = last
      /\ last'.name = last.name /\ last'.frame = last.frame)
       => db' = db]_vars

\* The same frame of two rows was saved twice with replace, over a table
\* that existed before the first save.
C6_Witness ==
  /\ last.op = "save_dataframe" /\ last.ok /\ last.arg = "replace"
  /\ prev.op = "save_dataframe" /\ prev.arg = "replace" /\ prev.existed
  /\ prev.name = last.name /\ prev.frame = last.frame
  /\ Len(last.frame.rows) = 2

FrameLabels(frame) == {frame.rows[p]["test_id"] : p \in 1..Len(frame.rows)}

\* The last two calls were successful saves with policy append into the same
\* table, which did not exist before the first, of frames with disjoint labels.
AppendedTwice ==
  /\ last.op = "save_dataframe" /\ last.ok /\ last.arg = "append"
  /\ prev.op = "save_dataframe" /\ prev.arg = "append" /\ ~prev.existed
  /\ prev.name = last.name
  /\ FrameLabels(prev.frame) \cap FrameLabels(last.frame) = {}

C8_NoOpenConnection == openConns = 0

====
